---- MODULE Spec2Model ----
(***************************************************************************)
(* A model of package transform (src/transform/parse.go): Parse and the    *)
(* FORMAT / UPPER / LOWER modifiers it dispatches to.                      *)
(*                                                                         *)
(* Strings are sequences of one-character strings, so that case mapping,   *)
(* number parsing and equality are computed character by character.        *)
(* A Go value held in an interface{} is a record of its dynamic type t and *)
(* its payload.  Containers hold interface{} elements (the data model of   *)
(* the specification: "a runtime value of unconstrained shape").           *)
(***************************************************************************)
EXTENDS Integers, Sequences, FiniteSets, TLC

VARIABLES
    p,        \* the *ParseParams of the sequential call: Attribute, Value, Name, Args
    arg,      \* the value p.Value held when the call was made (never changes)
    store,    \* the contents of the caller's container p.Value referred to
    val,      \* Parse's first result
    err,      \* Parse's second result
    pc,       \* "ready", "returned" or "panicked"
    heap,     \* concurrent calls: slice id -> its interface{} cells
    heap0,    \* concurrent calls: the heap when the calls started
    req,      \* concurrent calls: call -> its own *ParseParams
    cpc,      \* concurrent calls: call -> position in Parse
    idx,      \* concurrent calls: call -> loop variable i
    sref,     \* concurrent calls: call -> the slice its local s refers to
    res,      \* concurrent calls: call -> val of the element at line 33
    ret       \* concurrent calls: call -> what the call returned

vars == <<p, arg, store, val, err, pc, heap, heap0, req, cpc, idx, sref, res, ret>>

seqVars == <<p, arg, store, val, err, pc>>
concVars == <<heap, heap0, req, cpc, idx, sref, res, ret>>

----------------------------------------------------------------------------
(* Bounds of the model.                                                    *)

\* longest flat sequence, and most keys of a map, drawn as an input
MaxLen == 2

----------------------------------------------------------------------------
(* Characters and strings.                                                 *)

LowerLetters ==
    <<"a","b","c","d","e","f","g","h","i","j","k","l","m",
      "n","o","p","q","r","s","t","u","v","w","x","y","z">>

UpperLetters ==
    <<"A","B","C","D","E","F","G","H","I","J","K","L","M",
      "N","O","P","Q","R","S","T","U","V","W","X","Y","Z">>

Digits == <<"0","1","2","3","4","5","6","7","8","9">>

IndexIn(c, cs) == CHOOSE i \in 1..Len(cs) : cs[i] = c

IsIn(c, cs) == \E i \in 1..Len(cs) : cs[i] = c

UpperChar(c) == IF IsIn(c, LowerLetters) THEN UpperLetters[IndexIn(c, LowerLetters)] ELSE c

LowerChar(c) == IF IsIn(c, UpperLetters) THEN LowerLetters[IndexIn(c, UpperLetters)] ELSE c

\* strings.ToUpper on ASCII text
ToUpper(s) == [i \in 1..Len(s) |-> UpperChar(s[i])]

\* strings.ToLower on ASCII text
ToLower(s) == [i \in 1..Len(s) |-> LowerChar(s[i])]

\* the modifier names of the switch in Parse
sFORMAT == <<"F","O","R","M","A","T">>
sUPPER == <<"U","P","P","E","R">>
sLOWER == <<"L","O","W","E","R">>

\* the attributes of the switch in pFormat
sName == <<"n","a","m","e">>
sSize == <<"s","i","z","e">>
sTime == <<"t","i","m","e">>

\* the units of the switch in pFormatSize
sB == <<"B">>
sKB == <<"K","B">>
sMB == <<"M","B">>
sGB == <<"G","B">>

\* the layouts of the switch in pFormatTime
sISO == <<"I","S","O">>
sUNIX == <<"U","N","I","X">>

----------------------------------------------------------------------------
(* Values, errors and results.                                             *)

Str(s) == [t |-> "string", s |-> s]
IntV(n) == [t |-> "int", n |-> n]
Float(n) == [t |-> "float64", f |-> n]
Bool(b) == [t |-> "bool", b |-> b]
Time(a) == [t |-> "time.Time", at |-> a]
Slice(e) == [t |-> "slice", e |-> e]
Array(e) == [t |-> "array", e |-> e]
Map(m) == [t |-> "map", m |-> m]

\* the nil interface value
Nil == [t |-> "nil"]

\* the nil error
NoErr == [kind |-> "nil", a |-> <<>>, b |-> <<>>]

ErrNotImplemented(name, attribute) == [kind |-> "ErrNotImplemented", a |-> name, b |-> attribute]

ErrUnsupportedFormat(format, attribute) == [kind |-> "ErrUnsupportedFormat", a |-> format, b |-> attribute]

\* the *strconv.NumError of ParseFloat
NumError(s) == [kind |-> "strconv.NumError", a |-> s, b |-> <<>>]

\* the *time.ParseError of time.Parse
ParseError(layout, s) == [kind |-> "time.ParseError", a |-> s, b |-> layout]

\* a function returning (v, e)
Ret(v, e) == [st |-> "ret", val |-> v, err |-> e]

\* a run-time panic: the function does not return
Panic == [st |-> "panic", val |-> Nil, err |-> NoErr]

IsSeq(v) == v.t \in {"slice", "array"}

IsScalar(v) == v.t \notin {"slice", "array", "map", "nil"}

----------------------------------------------------------------------------
(* The library functions the modifiers call.                               *)

RECURSIVE NatOf(_)
\* the number a string of decimal digits denotes
NatOf(s) ==
    IF s = <<>> THEN 0
    ELSE 10 * NatOf(SubSeq(s, 1, Len(s) - 1)) + (IndexIn(s[Len(s)], Digits) - 1)

AllDigits(s) == s # <<>> /\ \A i \in 1..Len(s) : IsIn(s[i], Digits)

\* strconv.ParseFloat(s, 64) on an optional sign followed by decimal digits;
\* any other text of the inputs drawn here is a syntax error
ParseFloat(s) ==
    IF AllDigits(s) THEN [ok |-> TRUE, n |-> NatOf(s)]
    ELSE IF s # <<>> /\ s[1] \in {"+", "-"} /\ AllDigits(Tail(s))
         THEN [ok |-> TRUE, n |-> IF s[1] = "-" THEN 0 - NatOf(Tail(s)) ELSE NatOf(Tail(s))]
         ELSE [ok |-> FALSE, n |-> 0]

\* the layouts time.RFC3339, time.UnixDate and "Jan 02 2006 15 04", by name
RFC3339 == <<"RFC3339">>
UnixDate == <<"UnixDate">>
HourMinute == <<"Jan 02 2006 15 04">>

\* "2020-01-02T15:04:05Z"
IsoStamp ==
    <<"2","0","2","0","-","0","1","-","0","2","T","1","5",":","0","4",":","0","5","Z">>

\* the timestamps of the inputs that a layout accepts, with the instant each denotes
TimeTable == { [layout |-> RFC3339, s |-> IsoStamp, at |-> <<2020, 1, 2, 15, 4, 5>>] }

\* time.Parse(layout, s) on the strings drawn as inputs
TimeParse(layout, s) ==
    IF \E e \in TimeTable : e.layout = layout /\ e.s = s
    THEN Ret(Time((CHOOSE e \in TimeTable : e.layout = layout /\ e.s = s).at), NoErr)
    ELSE Ret(Nil, ParseError(layout, s))

\* upper(s): the package's upper-casing helper
upper(s) == Str(ToUpper(s))

\* lower(s): the package's lower-casing helper
lower(s) == Str(ToLower(s))

\* formatName(arg, name): the naming convention arg applied to name, nil when
\* the convention is not known
formatName(a, name) ==
    CASE ToUpper(a) = sUPPER -> upper(name)
      [] ToUpper(a) = sLOWER -> lower(name)
      [] OTHER -> Nil

----------------------------------------------------------------------------
(* The modifiers.  q is the *ParseParams, q.Value a scalar.                *)

\* pFormatTime (lines 114-132)
pFormatTime(q) ==
    IF q.Args = <<>> THEN Panic                       \* p.Args[0]: index out of range
    ELSE IF q.Value.t # "string" THEN Panic           \* p.Value.(string)
    ELSE LET r == CASE ToUpper(q.Args[1]) = sISO -> TimeParse(RFC3339, q.Value.s)
                    [] ToUpper(q.Args[1]) = sUNIX -> TimeParse(UnixDate, q.Value.s)
                    [] OTHER -> TimeParse(HourMinute, q.Value.s)
         IN IF r.err # NoErr THEN Ret(Nil, r.err) ELSE Ret(r.val, NoErr)

\* a unit table in which GB is 2^30
SizeSwitchGiB(u, n) ==
    CASE u = sB -> Float(n * 1)
      [] u = sKB -> Float(n * (2 ^ 10))
      [] u = sMB -> Float(n * (2 ^ 20))
      [] u = sGB -> Float(n * (2 ^ 30))
      [] OTHER -> Nil

\* the switch of pFormatSize on the upper-cased unit u (lines 98-109)
SizeSwitch(u, n) ==
    CASE u = sB -> Float(n * 1)
      [] u = sKB -> Float(n * (2 ^ 10))
      [] u = sMB -> Float(n * (2 ^ 20))
      [] u = sGB -> Float(n * (2 ^ 20))
      [] OTHER -> Nil

\* pFormatSize (lines 92-112)
pFormatSize(q) ==
    IF q.Value.t # "string" THEN Panic                \* p.Value.(string)
    ELSE LET r == ParseFloat(q.Value.s)
         IN IF ~r.ok THEN Ret(Nil, NumError(q.Value.s))
            ELSE IF q.Args = <<>> THEN Panic          \* p.Args[0]: index out of range
            ELSE Ret(SizeSwitch(ToUpper(q.Args[1]), r.n), NoErr)

\* the switch of pFormat on p.Attribute (lines 74-81)
FormatSwitch(q) ==
    CASE q.Attribute = sName ->
             IF q.Args = <<>> \/ q.Value.t # "string" THEN Panic
             ELSE Ret(formatName(q.Args[1], q.Value.s), NoErr)
      [] q.Attribute = sSize -> pFormatSize(q)
      [] q.Attribute = sTime -> pFormatTime(q)
      [] OTHER -> Ret(Nil, NoErr)

\* pFormat (lines 73-90)
pFormat(q) ==
    LET r == FormatSwitch(q)
    IN IF r.st = "panic" THEN Panic
       ELSE IF r.err # NoErr THEN Ret(Nil, r.err)
       ELSE IF r.val = Nil
            THEN IF q.Args = <<>> THEN Panic          \* p.Args[0]: index out of range
                 ELSE Ret(Nil, ErrUnsupportedFormat(q.Args[1], q.Attribute))
       ELSE Ret(r.val, NoErr)

\* the switch of Parse on p.Name as given, not upper-cased
NameSwitchCaseSensitive(q) ==
    CASE q.Name = sFORMAT -> pFormat(q)
      [] q.Name = sUPPER ->
             IF q.Value.t # "string" THEN Panic ELSE Ret(upper(q.Value.s), NoErr)
      [] q.Name = sLOWER ->
             IF q.Value.t # "string" THEN Panic ELSE Ret(lower(q.Value.s), NoErr)
      [] OTHER -> Ret(Nil, NoErr)

\* the switch of Parse on strings.ToUpper(p.Name) (lines 55-62)
NameSwitch(q) ==
    CASE ToUpper(q.Name) = sFORMAT -> pFormat(q)
      [] ToUpper(q.Name) = sUPPER ->
             IF q.Value.t # "string" THEN Panic ELSE Ret(upper(q.Value.s), NoErr)
      [] ToUpper(q.Name) = sLOWER ->
             IF q.Value.t # "string" THEN Panic ELSE Ret(lower(q.Value.s), NoErr)
      [] OTHER -> Ret(Nil, NoErr)

\* Parse on a scalar p.Value (lines 55-70)
Dispatch(q) ==
    LET r == NameSwitch(q)
    IN IF r.st = "panic" THEN Panic
       ELSE IF r.err # NoErr THEN Ret(Nil, r.err)
       ELSE IF r.val = Nil THEN Ret(Nil, ErrNotImplemented(q.Name, q.Attribute))
       ELSE Ret(r.val, NoErr)

----------------------------------------------------------------------------
(* Parse.  An outcome is what one execution leaves behind:                 *)
(*   st, val, err : the call returned (val, err), or panicked;             *)
(*   mem          : the contents of the container the call was given;      *)
(*   pv           : p.Value when the call ended.                           *)
(* A map is ranged over in any order, so Parse is the set of outcomes.     *)

Outcome(r, mem, pv) == [st |-> r.st, val |-> r.val, err |-> r.err, mem |-> mem, pv |-> pv]

\* the sequence s with its i-th element holding x
WithIndex(s, i, x) == [s EXCEPT !.e[i] = x]

\* the map m with m[k] = x (reflect.Value.SetMapIndex)
SetMapIndex(m, k, x) == [y \in (DOMAIN m) \cup {k} |-> IF y = k THEN x ELSE m[y]]

\* a result map that starts from the entries of the input map
MakeMapFromInput(v) == v.m

\* reflect.MakeMap(reflect.TypeOf(p.Value)): a new, empty map of the type of v
MakeMap(v) == <<>>

\* s.Index(i).Set(x): a slice's elements are addressable, those of an array
\* held in an interface are not, and Set panics on them
CanSet(s) == s.t = "slice"

RECURSIVE Parse(_, _), ParseSeq(_, _, _, _), ParseMap(_, _, _, _, _)

\* Parse applied first to the name and only then to the shape of the value
ParseNameFirst(q, v) ==
    IF ToUpper(q.Name) \notin {sFORMAT, sUPPER, sLOWER}
    THEN {Outcome(Ret(Nil, ErrNotImplemented(q.Name, q.Attribute)), v, v)}
    ELSE CASE v.t = "nil" -> {Outcome(Panic, v, v)}
           [] IsSeq(v) -> ParseSeq(q, v, 1, v)
           [] v.t = "map" -> ParseMap(q, v, DOMAIN v.m, MakeMap(v), v)
           [] OTHER -> {Outcome(Dispatch([q EXCEPT !.Value = v]), v, v)}

\* Parse (lines 26-71) with p.Value = v
Parse(q, v) ==
    CASE v.t = "nil" -> {Outcome(Panic, v, v)}        \* reflect.TypeOf(nil).Kind()
      [] IsSeq(v) -> ParseSeq(q, v, 1, v)
      [] v.t = "map" -> ParseMap(q, v, DOMAIN v.m, MakeMap(v), v)
      [] OTHER -> {Outcome(Dispatch([q EXCEPT !.Value = v]), v, v)}

\* the loop of lines 31-37 from index i on, s holding the elements as written
\* so far and pv being p.Value
ParseSeq(q, s, i, pv) ==
    IF i > Len(s.e) THEN {Outcome(Ret(s, NoErr), s, pv)}
    ELSE UNION { IF o.st = "panic" THEN {Outcome(Panic, WithIndex(s, i, o.mem), o.pv)}
                 ELSE IF o.err # NoErr
                      THEN {Outcome(Ret(Nil, o.err), WithIndex(s, i, o.mem), o.pv)}
                 ELSE IF ~CanSet(s) THEN {Outcome(Panic, WithIndex(s, i, o.mem), o.pv)}
                 ELSE ParseSeq(q, WithIndex(s, i, o.val), i + 1, o.pv)
                 : o \in Parse(q, s.e[i]) }

\* the loop of lines 45-51 over the keys still to visit, result being the map
\* built so far
ParseMap(q, m, keys, result, pv) ==
    IF keys = {} THEN {Outcome(Ret(Map(result), NoErr), m, pv)}
    ELSE UNION { UNION { IF o.st = "panic" THEN {Outcome(Panic, m, o.pv)}
                         ELSE IF o.err # NoErr THEN {Outcome(Ret(Nil, o.err), m, o.pv)}
                         ELSE ParseMap(q, m, keys \ {k},
                                       SetMapIndex(result, o.val, Bool(TRUE)), o.pv)
                         : o \in Parse(q, k) }
                 : k \in keys }

----------------------------------------------------------------------------
(* The requests and values a call is made with.                            *)

\* modifier names: the three known ones in several casings, an unknown one
\* and the empty one
Names ==
    { sFORMAT, <<"f","o","r","m","a","t">>, <<"U","p","p","e","r">>,
      <<"l","o","w","e","r">>, <<"F","O","O">>, <<>> }

\* attributes: the three of pFormat, one in another casing and an unknown one
Attributes == { sName, sSize, sTime, <<"S","i","z","e">>, <<"m","o","d","e">> }

\* argument lists: none, the units, an unknown unit, a convention and a layout
ArgLists ==
    { <<>>, << <<"B">> >>, << <<"k","b">> >>, << <<"M","b">> >>, << <<"G","B">> >>,
      << <<"T","B">> >>, << <<"u","p","p","e","r">> >>, << <<"i","s","o">> >> }

\* scalars held in containers
Leaves == { Str(<<"a","B">>), Str(<<"a","b">>), Str(<<"1">>), IntV(7) }

\* scalars passed on their own
Scalars == Leaves \cup { Str(<<"-","2">>), Str(IsoStamp) }

\* what an input map holds under each key
Payload == Str(<<"v">>)

SeqsUpTo(S, n) == UNION { [1..k -> S] : k \in 0..n }

BothKinds(es) == { Slice(e) : e \in es } \cup { Array(e) : e \in es }

MapsOver(S, n) == { Map([k \in K |-> Payload]) : K \in { X \in SUBSET S : Cardinality(X) <= n } }

\* sequences of scalars
FlatSeqs == BothKinds(SeqsUpTo(Leaves, MaxLen))

\* maps keyed by scalars
Maps == MapsOver(Leaves, MaxLen)

\* the scalars of inner containers: one that FORMAT/size accepts, one it rejects
InnerLeaves == { Str(<<"1">>), Str(<<"a","B">>) }

\* containers held as elements of a sequence
Inner == BothKinds(SeqsUpTo(InnerLeaves, 2)) \cup MapsOver(InnerLeaves, 2)

\* sequences of one or two elements, each a scalar or a container
Nested == BothKinds([1..1 -> Leaves \cup Inner] \cup [1..2 -> Leaves \cup Inner])

\* the attributes and argument lists tried on nested sequences
NestedAttributes == { sSize, <<"m","o","d","e">> }
NestedArgLists == { <<>>, << <<"k","b">> >>, << <<"T","B">> >> }

Request(a, v, n, as) == [Attribute |-> a, Value |-> v, Name |-> n, Args |-> as]

\* a request on a scalar, a flat sequence or a map: every name, attribute and
\* argument list
IsPlainRequest(q) ==
    \E a \in Attributes, v \in Scalars \cup FlatSeqs \cup Maps, n \in Names, as \in ArgLists :
        q = Request(a, v, n, as)

\* a request on a nested sequence
IsNestedRequest(q) ==
    \E a \in NestedAttributes, v \in Nested, n \in Names, as \in NestedArgLists :
        q = Request(a, v, n, as)

----------------------------------------------------------------------------
(* One call of Parse.                                                      *)

Idle ==
    /\ heap = <<>> /\ heap0 = <<>> /\ req = <<>> /\ cpc = <<>>
    /\ idx = <<>> /\ sref = <<>> /\ res = <<>> /\ ret = <<>>

Init ==
    /\ IsPlainRequest(p) \/ IsNestedRequest(p)
    /\ arg = p.Value
    /\ store = p.Value
    /\ val = Nil
    /\ err = NoErr
    /\ pc = "ready"
    /\ Idle

\* val, err := Parse(p)
ParseCall ==
    /\ pc = "ready"
    /\ \E o \in Parse(p, p.Value) :
          /\ p' = [p EXCEPT !.Value = o.pv]
          /\ store' = o.mem
          /\ val' = o.val
          /\ err' = o.err
          /\ pc' = IF o.st = "panic" THEN "panicked" ELSE "returned"
    /\ UNCHANGED <<arg, concVars>>

Next == ParseCall

Spec == Init /\ [][Next]_vars

----------------------------------------------------------------------------
(* Two calls of Parse running at once, each on a slice of scalars, each    *)
(* with its own *ParseParams.  A slice is a reference: the calls may have  *)
(* been handed the same one.  An interface{} cell is two words, typ and    *)
(* dat, that s.Index(i).Set stores one after the other; a cell read        *)
(* between the two stores is torn.  A panic ends the process, and with it  *)
(* both calls.                                                             *)

Calls == {1, 2}

Cell(x) == [typ |-> x.t, dat |-> x]

\* s.Index(i).Interface() of a cell: the value, or a torn one that carries the
\* type word of one value and the data word of another
Load(c) == IF c.typ = c.dat.t THEN c.dat ELSE [t |-> "torn", w |-> c.typ]

\* the slice with cells cs, as a value
SliceOf(cs) == Slice([i \in 1..Len(cs) |-> Load(cs[i])])

\* storing one word of x into a cell
StoreWord(c, w, x) == IF w = "typ" THEN [c EXCEPT !.typ = x.t] ELSE [c EXCEPT !.dat = x]

\* a store that always lands in slice 1
SetWordInFirst(h, id, i, w, x) ==
    IF i <= Len(h[1]) THEN [h EXCEPT ![1][i] = StoreWord(h[1][i], w, x)] ELSE h

\* one word of s.Index(i).Set(x) on slice id (line 36)
SetWord(h, id, i, w, x) == [h EXCEPT ![id][i] = StoreWord(h[id][i], w, x)]

\* what using a value with a foreign data word as a string may do
Garbage == [t |-> "torn", w |-> "garbage"]
Undefined == { Panic, Ret(Garbage, NoErr), Ret(Nil, [kind |-> "garbage", a |-> <<>>, b |-> <<>>]) }

\* Parse on the scalar q.Value (lines 55-70) when the value may be torn: a type
\* word other than string fails every p.Value.(string); the type word string over
\* foreign data passes it, and what follows is undefined
DispatchLoaded(q) ==
    IF q.Value.t # "torn" THEN {Dispatch(q)}
    ELSE LET asOther == Dispatch([q EXCEPT !.Value = [t |-> "other"]])
         IN IF q.Value.w # "string" \/ asOther.st # "panic" THEN {asOther} ELSE Undefined

\* the modifiers the concurrent calls apply
ConcModifiers ==
    { [Name |-> <<"U","p","p","e","r">>, Attribute |-> sName, Args |-> <<>>],
      [Name |-> <<"l","o","w","e","r">>, Attribute |-> sName, Args |-> <<>>],
      [Name |-> sFORMAT, Attribute |-> sSize, Args |-> << <<"k","b">> >>],
      [Name |-> sFORMAT, Attribute |-> sSize, Args |-> <<>>] }

\* the slices the concurrent calls are given
ConcSlices == SeqsUpTo(InnerLeaves, MaxLen)

\* a reference to slice id
Ref(id) == [t |-> "slice", id |-> id]

Shared == sref[1] = sref[2]

InitConc ==
    /\ \E m \in [Calls -> ConcModifiers], id \in Calls, e1 \in ConcSlices, e2 \in ConcSlices :
          /\ id = 1 => e2 = <<>>
          /\ heap = <<[i \in 1..Len(e1) |-> Cell(e1[i])], [i \in 1..Len(e2) |-> Cell(e2[i])]>>
          /\ req = [c \in Calls |->
                      Request(m[c].Attribute, Ref(IF c = 1 THEN 1 ELSE id), m[c].Name, m[c].Args)]
          /\ sref = [c \in Calls |-> IF c = 1 THEN 1 ELSE id]
    /\ heap0 = heap
    /\ cpc = [c \in Calls |-> "ready"]
    /\ idx = [c \in Calls |-> 0]
    /\ res = [c \in Calls |-> Nil]
    /\ ret = [c \in Calls |-> Ret(Nil, NoErr)]
    /\ p = <<>> /\ arg = Nil /\ store = Nil /\ val = Nil /\ err = NoErr /\ pc = "idle"

Running == \A c \in Calls : cpc[c] # "panicked"

\* lines 27-31: the value is a slice, s refers to it, i := 0
Enter(c) ==
    /\ Running /\ cpc[c] = "ready"
    /\ cpc' = [cpc EXCEPT ![c] = "loop"]
    /\ idx' = [idx EXCEPT ![c] = 1]
    /\ UNCHANGED <<heap, heap0, req, sref, res, ret, seqVars>>

\* lines 31-32: i < s.Len(), p.Value = s.Index(i).Interface()
LoadElem(c) ==
    /\ Running /\ cpc[c] = "loop" /\ idx[c] <= Len(heap[sref[c]])
    /\ req' = [req EXCEPT ![c].Value = Load(heap[sref[c]][idx[c]])]
    /\ cpc' = [cpc EXCEPT ![c] = "call"]
    /\ UNCHANGED <<heap, heap0, idx, sref, res, ret, seqVars>>

\* lines 33-35: val, err = Parse(p) on the element, return nil, err on an error
CallElem(c) ==
    /\ Running /\ cpc[c] = "call"
    /\ \E r \in DispatchLoaded(req[c]) :
          \/ /\ r.st = "panic"
             /\ cpc' = [cpc EXCEPT ![c] = "panicked"]
             /\ ret' = [ret EXCEPT ![c] = Panic]
             /\ res' = res
          \/ /\ r.st = "ret" /\ r.err # NoErr
             /\ cpc' = [cpc EXCEPT ![c] = "done"]
             /\ ret' = [ret EXCEPT ![c] = Ret(Nil, r.err)]
             /\ res' = res
          \/ /\ r.st = "ret" /\ r.err = NoErr
             /\ cpc' = [cpc EXCEPT ![c] = "set"]
             /\ res' = [res EXCEPT ![c] = r.val]
             /\ ret' = ret
    /\ UNCHANGED <<heap, heap0, req, idx, sref, seqVars>>

\* line 36, the first word stored
SetFirst(c) ==
    /\ Running /\ cpc[c] = "set"
    /\ \E w \in {"typ", "dat"} :
          /\ heap' = SetWord(heap, sref[c], idx[c], w, res[c])
          /\ cpc' = [cpc EXCEPT ![c] = IF w = "typ" THEN "set dat" ELSE "set typ"]
    /\ UNCHANGED <<heap0, req, idx, sref, res, ret, seqVars>>

\* line 36, the second word stored, and i++
SetSecond(c) ==
    /\ Running /\ cpc[c] \in {"set dat", "set typ"}
    /\ heap' = SetWord(heap, sref[c], idx[c], IF cpc[c] = "set dat" THEN "dat" ELSE "typ", res[c])
    /\ idx' = [idx EXCEPT ![c] = idx[c] + 1]
    /\ cpc' = [cpc EXCEPT ![c] = "loop"]
    /\ UNCHANGED <<heap0, req, sref, res, ret, seqVars>>

\* lines 31 and 38: the loop is over, return s.Interface(), nil
Leave(c) ==
    /\ Running /\ cpc[c] = "loop" /\ idx[c] > Len(heap[sref[c]])
    /\ ret' = [ret EXCEPT ![c] = Ret(SliceOf(heap[sref[c]]), NoErr)]
    /\ cpc' = [cpc EXCEPT ![c] = "done"]
    /\ UNCHANGED <<heap, heap0, req, idx, sref, res, seqVars>>

NextConc ==
    \E c \in Calls :
        \/ Enter(c)
        \/ LoadElem(c)
        \/ CallElem(c)
        \/ SetFirst(c)
        \/ SetSecond(c)
        \/ Leave(c)

SpecConc == InitConc /\ [][NextConc]_vars

----------------------------------------------------------------------------
(* Vocabulary of the properties.                                           *)

Ended == pc \in {"returned", "panicked"}

KnownName(n) == ToUpper(n) \in {sFORMAT, sUPPER, sLOWER}

\* the outcomes of transforming v with the request's modifier
Transform(v) == Parse(p, v)

Succeeds(v) == \A o \in Transform(v) : o.st = "ret" /\ o.err = NoErr

Fails(v) == \A o \in Transform(v) : o.st = "ret" /\ o.err # NoErr

Results(v) == { o.val : o \in Transform(v) }

Errors(v) == { o.err : o \in Transform(v) }

RECURSIVE HasLeaf(_)
\* the traversal of v reaches a scalar: an element, or a key of a map
HasLeaf(v) ==
    CASE IsSeq(v) -> \E i \in 1..Len(v.e) : HasLeaf(v.e[i])
      [] v.t = "map" -> \E k \in DOMAIN v.m : HasLeaf(k)
      [] OTHER -> TRUE

IsEmptyContainer(v) == (IsSeq(v) /\ v.e = <<>>) \/ (v.t = "map" /\ DOMAIN v.m = {})

----------------------------------------------------------------------------
(* C1: Parse on a sequence whose elements all transform successfully       *)
(* returns a sequence of the same length whose i-th element is the i-th    *)
(* original element transformed by the same modifier.                      *)
C1_SequencePreserved ==
    (Ended /\ IsSeq(arg) /\ \A i \in 1..Len(arg.e) : Succeeds(arg.e[i]))
    => /\ pc = "returned" /\ err = NoErr
       /\ IsSeq(val) /\ Len(val.e) = Len(arg.e)
       /\ \A i \in 1..Len(arg.e) : val.e[i] \in Results(arg.e[i])

(* C2: Parse on a sequence whose first failing element is at index k       *)
(* returns that element's error and no value, leaves the elements before k *)
(* transformed and the elements from k on as they were.                    *)
C2_FirstFailureStops ==
    \A k \in 1..(IF IsSeq(arg) THEN Len(arg.e) ELSE 0) :
        (Ended /\ Fails(arg.e[k]) /\ \A i \in 1..(k - 1) : Succeeds(arg.e[i]))
        => /\ pc = "returned" /\ val = Nil /\ err \in Errors(arg.e[k])
           /\ IsSeq(store) /\ Len(store.e) = Len(arg.e)
           /\ \A i \in 1..(k - 1) : store.e[i] \in Results(arg.e[i])
           /\ \A i \in k..Len(arg.e) : store.e[i] = arg.e[i]

C4_UnknownNameNotImplemented ==
    (Ended /\ IsScalar(arg))
    => IF KnownName(p.Name)
       THEN err.kind # "ErrNotImplemented"
       ELSE pc = "returned" /\ val = Nil /\ err = ErrNotImplemented(p.Name, p.Attribute)

C4_Witness ==
    /\ pc = "returned" /\ arg = IntV(7) /\ p.Name = <<"F","O","O">> /\ p.Args # <<>>
    /\ err = ErrNotImplemented(<<"F","O","O">>, sTime)

(* C5: FORMAT on a scalar with an attribute other than name, size and time *)
(* returns NotImplemented(name, attribute), whatever the arguments.        *)
C5_UnknownAttributeNotImplemented ==
    (Ended /\ IsScalar(arg) /\ ToUpper(p.Name) = sFORMAT
        /\ p.Attribute \notin {sName, sSize, sTime})
    => pc = "returned" /\ val = Nil /\ err = ErrNotImplemented(p.Name, p.Attribute)

(* C6: UPPER and LOWER on a scalar that is not a string return an error:   *)
(* the call completes, with an error and no value.                         *)
C6_NonStringReturnsError ==
    (Ended /\ IsScalar(arg) /\ arg.t # "string" /\ ToUpper(p.Name) \in {sUPPER, sLOWER})
    => pc = "returned" /\ val = Nil /\ err # NoErr

(* C7: FORMAT on a string with no arguments, for attribute name or size,   *)
(* returns an error (UnsupportedFormat for attribute name): it neither     *)
(* panics nor returns a value.                                             *)
C7_MissingArgReturnsError ==
    (Ended /\ arg.t = "string" /\ ToUpper(p.Name) = sFORMAT /\ p.Args = <<>>
        /\ p.Attribute \in {sName, sSize})
    => /\ pc = "returned" /\ val = Nil /\ err # NoErr
       /\ p.Attribute = sName => (err.kind = "ErrUnsupportedFormat" /\ err.b = sName)

\* the numeric strings among the scalars, with the numbers they denote
Numerals == { <<Str(<<"1">>), 1>>, <<Str(<<"-","2">>), 0 - 2>> }

(* C9: FORMAT/size on a string denoting the number n is decided by the     *)
(* upper-cased args[0]: B gives n, KB n*2^10, MB n*2^20, GB n*2^20, and    *)
(* any other unit the error UnsupportedFormat(args[0], "size").            *)
C9_SizeUnits ==
    \A e \in Numerals :
        (Ended /\ arg = e[1] /\ ToUpper(p.Name) = sFORMAT /\ p.Attribute = sSize
            /\ p.Args # <<>>)
        => /\ pc = "returned"
           /\ CASE ToUpper(p.Args[1]) = <<"B">> -> val = Float(e[2]) /\ err = NoErr
                [] ToUpper(p.Args[1]) = <<"K","B">> -> val = Float(e[2] * 1024) /\ err = NoErr
                [] ToUpper(p.Args[1]) = <<"M","B">> -> val = Float(e[2] * 1048576) /\ err = NoErr
                [] ToUpper(p.Args[1]) = <<"G","B">> -> val = Float(e[2] * 1048576) /\ err = NoErr
                [] OTHER -> val = Nil /\ err = ErrUnsupportedFormat(p.Args[1], sSize)

C9_Witness ==
    /\ pc = "returned" /\ arg = Str(<<"-","2">>) /\ p.Name = <<"f","o","r","m","a","t">>
    /\ p.Attribute = sSize /\ p.Args = << <<"G","B">> >>
    /\ val = Float(0 - 2097152)

(* C10: Parse on an empty sequence or map returns that container and no    *)
(* error for every name, attribute and argument list; NotImplemented for   *)
(* an unknown name is returned only when the traversal reached a scalar.   *)
C10_EmptyContainerUntouched ==
    /\ (Ended /\ IsEmptyContainer(arg))
       => pc = "returned" /\ val = arg /\ err = NoErr /\ store = arg
    /\ (Ended /\ ~KnownName(p.Name) /\ err.kind = "ErrNotImplemented") => HasLeaf(arg)

C10_Witness ==
    /\ pc = "returned" /\ arg = Array(<<>>) /\ p.Name = <<"F","O","O">>
    /\ p.Args = <<>> /\ val = Array(<<>>) /\ err = NoErr

\* what call c returns when it runs alone on the slice it was given
Alone(c) ==
    { Ret(o.val, o.err) : o \in { x \in Parse(req[c], SliceOf(heap0[sref[c]])) : x.st = "ret" } }
    \cup { Panic : o \in { x \in Parse(req[c], SliceOf(heap0[sref[c]])) : x.st = "panic" } }

CallEnded(c) == cpc[c] \in {"done", "panicked"}

====
